---- MODULE Spec2Model ----
(***************************************************************************)
(* A model of german_translator_cli/translate_cli.py: the line-preserving  *)
(* chunk reader (read_in_chunks), the model-name resolver (get_model_name), *)
(* the layered configuration (load_config and the argparse defaults) and    *)
(* the two drivers of main(), streaming (-i) and single call (--text).      *)
(*                                                                          *)
(* Text is a sequence of one-character strings.  A file is a sequence of    *)
(* the characters its bytes encode, where BAD stands for a byte sequence    *)
(* that is not valid UTF-8.                                                 *)
(***************************************************************************)
EXTENDS Integers, Sequences, FiniteSets, TLC

\* ---------------------------------------------------------------- bounds

\* longest file (in characters) over the full alphabet
MaxLen == 4
\* longest single-line file without a newline
MaxLine == 10
\* largest chunk_size read_in_chunks is called with
MaxChunk == 3
\* longest file the streaming driver of main() is run on
MaxMainLen == 5
\* the chunk_size main() passes (1024 in the source), scaled to the files above
MainChunkSize == 2
\* most keys one configuration layer (a config file, the command line) sets
MaxKeys == 1

\* ------------------------------------------------------------ characters

LF == "\n"
CR == "\r"
BAD == "?"
None == "None"

Alphabet == {"a", "b", LF, CR}

Min(a, b) == IF a < b THEN a ELSE b

SeqsUpTo(S, n) == UNION {[1..k -> S] : k \in 0..n}

RECURSIVE Repeat(_, _)
Repeat(c, n) == IF n = 0 THEN <<>> ELSE <<c>> \o Repeat(c, n - 1)

RECURSIVE Concat(_)
Concat(ss) == IF ss = <<>> THEN <<>> ELSE Head(ss) \o Concat(Tail(ss))

HasNewline(s) == \E i \in 1..Len(s) : s[i] = LF

\* ---------------------------------------------------- read_in_chunks

\* open(file_path, 'r', encoding='utf-8') opens in text mode with universal
\* newlines: what f.read returns has every "\r\n" and every lone "\r"
\* replaced by "\n".
RECURSIVE TranslateNewlines(_)
TranslateNewlines(raw) ==
    IF raw = <<>> THEN <<>>
    ELSE IF raw[1] = CR
         THEN IF Len(raw) >= 2 /\ raw[2] = LF
              THEN <<LF>> \o TranslateNewlines(SubSeq(raw, 3, Len(raw)))
              ELSE <<LF>> \o TranslateNewlines(Tail(raw))
         ELSE <<raw[1]>> \o TranslateNewlines(Tail(raw))

\* f.read(chunk_size) at offset pos of the decoded text: chunk_size characters,
\* fewer only at the end of the file.
FRead(text, pos, chunk_size) == SubSeq(text, pos + 1, Min(pos + chunk_size, Len(text)))

\* buffer.find('\n'): 0-based index of the first newline, -1 when there is none
find(buffer) ==
    IF HasNewline(buffer)
    THEN (CHOOSE i \in 1..Len(buffer) :
              buffer[i] = LF /\ \A j \in 1..(i - 1) : buffer[j] # LF) - 1
    ELSE -1

\* buffer.rfind('\n'): 0-based index of the last newline, -1 when there is none
rfind(buffer) ==
    IF HasNewline(buffer)
    THEN (CHOOSE i \in 1..Len(buffer) :
              buffer[i] = LF /\ \A j \in (i + 1)..Len(buffer) : buffer[j] # LF) - 1
    ELSE -1

\* Python slices buffer[:k] and buffer[k:]
SliceTo(buffer, k) == SubSeq(buffer, 1, Min(k, Len(buffer)))
SliceFromOffByOne(buffer, k) == SubSeq(buffer, k + 2, Len(buffer))
SliceFrom(buffer, k) == SubSeq(buffer, k + 1, Len(buffer))

\* the forced-split test of line 107
LongLineLate(buffer, chunk_size) == Len(buffer) > 3 * chunk_size
LongLine(buffer, chunk_size) == Len(buffer) > 2 * chunk_size

\* One pass of the loop body after a non-empty block was read (lines 102-109):
\* the buffer after the append, the chunk yielded (a sequence of zero or one
\* chunks) and the buffer kept.
LoopBody(buffer, block, chunk_size) ==
    LET appended == buffer \o block
        last_newline == rfind(appended)
    IN  IF last_newline # -1
        THEN [appended |-> appended,
              yield |-> <<SliceTo(appended, last_newline + 1)>>,
              buffer |-> SliceFrom(appended, last_newline + 1)]
        ELSE IF LongLine(appended, chunk_size)
        THEN [appended |-> appended,
              yield |-> <<SliceTo(appended, chunk_size)>>,
              buffer |-> SliceFrom(appended, chunk_size)]
        ELSE [appended |-> appended, yield |-> <<>>, buffer |-> appended]

\* ---------------------------------------------------- get_model_name

\* Python truthiness of an optional string: None and "" are both false
Falsy(v) == v = None \/ v = ""

\* MODEL_PROVIDERS.  A template is the sequence of its literal pieces and its
\* {placeholders}; helsinki has no 'sizes' entry in the source, which is the
\* empty sequence here.
MODEL_PROVIDERS ==
    [p \in {"helsinki", "facebook", "google"} |->
        CASE p = "helsinki" ->
               [name |-> "Helsinki-NLP",
                base_model |-> <<"opus-mt-", "{source}", "-", "{target}">>,
                base_path |-> <<"Helsinki-NLP/opus-mt-", "{source}", "-", "{target}">>,
                sizes |-> <<>>]
          [] p = "facebook" ->
               [name |-> "Facebook",
                base_model |-> <<"m2m100">>,
                base_path |-> <<"facebook/m2m100-", "{size}">>,
                sizes |-> <<"418M", "1.2B">>]
          [] p = "google" ->
               [name |-> "Google",
                base_model |-> <<"mt5">>,
                base_path |-> <<"google/mt5-", "{size}">>,
                sizes |-> <<"small", "base", "large">>]]

\* str.format: each {placeholder} piece is replaced by its argument, verbatim
RECURSIVE Format(_, _)
Format(template, kwargs) ==
    IF template = <<>> THEN ""
    ELSE (IF Head(template) \in DOMAIN kwargs THEN kwargs[Head(template)]
          ELSE Head(template)) \o Format(Tail(template), kwargs)

InSeq(x, s) == \E i \in 1..Len(s) : s[i] = x

Failed == [err |-> TRUE, name |-> None]
Named(n) == [err |-> FALSE, name |-> n]

\* the size get_model_name uses for a size-parameterised provider (lines 84-87)
SizeClamped(sizes, size) == IF Falsy(size) \/ ~InSeq(size, sizes) THEN Named(sizes[1]) ELSE Named(size)
SizeFor(sizes, size) ==
    IF Falsy(size) THEN Named(sizes[1])
    ELSE IF ~InSeq(size, sizes) THEN Failed
    ELSE Named(size)

\* line 80
HelsinkiName(provider_config, source_lang, target_lang) ==
    Format(<<provider_config.name, "/">> \o provider_config.base_model,
           [x \in {"{source}", "{target}"} |->
               IF x = "{source}" THEN source_lang ELSE target_lang])

get_model_name(provider, source_lang, target_lang, size) ==
    IF provider \notin DOMAIN MODEL_PROVIDERS THEN Failed
    ELSE LET provider_config == MODEL_PROVIDERS[provider]
         IN  IF provider = "helsinki"
             THEN Named(HelsinkiName(provider_config, source_lang, target_lang))
             ELSE IF provider \in {"facebook", "google"}
             THEN LET s == SizeFor(provider_config.sizes, size)
                  IN  IF s.err THEN Failed
                      ELSE Named(Format(provider_config.base_path,
                                        [x \in {"{size}"} |-> s.name]))
             ELSE Failed

\* translate_text, lines 145-150: the model identifier a call uses
ModelNameOf(model_name, provider, source_lang, target_lang, model_size) ==
    IF ~Falsy(model_name) THEN Named(model_name)
    ELSE get_model_name(provider, source_lang, target_lang, model_size)

\* -------------------------------------------- load_config and argparse

\* the settings of the command line that a configuration file can default
Settings == {"source_lang", "target_lang", "model", "provider",
             "max_length", "log_level", "log_format"}

\* the configuration key read for each setting (lines 237-280)
ConfigKey(dest) ==
    CASE dest = "source_lang" -> "default_source_lang"
      [] dest = "target_lang" -> "default_target_lang"
      [] dest = "model" -> "default_model"
      [] dest = "provider" -> "default_provider"
      [] dest = "max_length" -> "max_length"
      [] dest = "log_level" -> "log_level"
      [] dest = "log_format" -> "log_format"

\* the hard-coded defaults (second argument of each config.get)
HardDefault(dest) ==
    CASE dest = "source_lang" -> "de"
      [] dest = "target_lang" -> "en"
      [] dest = "model" -> None
      [] dest = "provider" -> "helsinki"
      [] dest = "max_length" -> 512
      [] dest = "log_level" -> "INFO"
      [] dest = "log_format" -> "%(asctime)s - %(levelname)s - %(message)s"

LogLevels == {"DEBUG", "INFO", "WARNING", "ERROR", "CRITICAL"}

\* str.upper on the level names in use
Upper(s) ==
    CASE s = "debug" -> "DEBUG"
      [] s = "error" -> "ERROR"
      [] OTHER -> s

\* int() on the decimal strings in use
IntOf(s) ==
    CASE s = "64" -> 64
      [] s = "32" -> 32

\* the type= of each argument, applied to a command-line string and to a
\* default that is a string (a max_length read from a config file is a YAML
\* integer and is kept as it is)
ArgType(dest, v) ==
    CASE dest = "max_length" -> IntOf(v)
      [] dest = "log_level" -> Upper(v)
      [] OTHER -> v

\* dict.update
UpdateKeepOld(config, doc) ==
    [k \in DOMAIN config \cup DOMAIN doc |->
        IF k \in DOMAIN config THEN config[k] ELSE doc[k]]
Update(config, doc) ==
    [k \in DOMAIN config \cup DOMAIN doc |->
        IF k \in DOMAIN doc THEN doc[k] ELSE config[k]]

\* config.get(key, default)
Get(config, key, default) == IF key \in DOMAIN config THEN config[key] ELSE default

\* the default= of a setting's argument, as argparse stores it when the flag
\* is absent: a string default goes through type=, any other is kept
ArgDefault(dest, config) ==
    LET d == Get(config, ConfigKey(dest), HardDefault(dest))
    IN  IF dest = "max_length" \/ d = None THEN d ELSE ArgType(dest, d)

\* parser.parse_args() rejects (exit status 2) --text together with -i, a
\* --provider or --log-level outside its choices
ParseError(argv) ==
    \/ {"text", "input"} \subseteq DOMAIN argv
    \/ "provider" \in DOMAIN argv /\ argv["provider"] \notin DOMAIN MODEL_PROVIDERS
    \/ "log_level" \in DOMAIN argv /\ Upper(argv["log_level"]) \notin LogLevels

Plain == {"text", "input", "output", "model_size"}

\* the namespace parse_args returns
ParseArgs(argv, config) ==
    [d \in Settings \cup Plain |->
        IF d \in DOMAIN argv
        THEN (IF d \in Settings THEN ArgType(d, argv[d]) ELSE argv[d])
        ELSE IF d \in Settings THEN ArgDefault(d, config) ELSE None]


\* one configuration layer as load_config meets it (lines 50-57, 60-67):
\* what happens to the dictionary, whether a warning is logged, and whether
\* an exception leaves load_config.  Only yaml.YAMLError and
\* FileNotFoundError are caught: the PermissionError of open() on an
\* unreadable file and the ValueError/TypeError of config.update() on a
\* document that is no mapping are not.
LoadLayer(file, config) ==
    CASE file.state = "absent" -> [raised |-> FALSE, warned |-> FALSE, config |-> config]
      [] file.state = "malformed" -> [raised |-> FALSE, warned |-> TRUE, config |-> config]
      [] file.state = "unreadable" -> [raised |-> TRUE, warned |-> FALSE, config |-> config]
      [] file.state = "nonmapping" -> [raised |-> TRUE, warned |-> FALSE, config |-> config]
      [] file.state = "mapping" ->
           [raised |-> FALSE, warned |-> FALSE, config |-> Update(config, file.doc)]

\* ------------------------------------------------------ translate_text

NoneResult == [none |-> TRUE, text |-> <<>>]
TextResult(t) == [none |-> FALSE, text |-> t]

\* `if translated_text:`
NotNone(r) == ~r.none
Truthy(r) == ~r.none /\ r.text # <<>>

\* what the Hugging Face side can hand back to translate_text: an exception
\* or a result of unexpected shape (None is returned), or a translation_text,
\* which may be empty
BackendReturns == {NoneResult, TextResult(<<>>), TextResult(<<"x">>), TextResult(<<"y">>)}

\* the ways one call of translate_text can end (lines 140-212): sys.exit(1)
\* on ImportError, None without touching the backend when no model name can
\* be constructed, or whatever the backend call gives
TranslateOutcomes(a) ==
    LET m == ModelNameOf(a["model"], a["provider"], a["source_lang"],
                         a["target_lang"], a["model_size"])
    IN  {[exits |-> TRUE, called |-> FALSE, model |-> None, ret |-> NoneResult]}
        \cup (IF m.err
              THEN {[exits |-> FALSE, called |-> FALSE, model |-> None, ret |-> NoneResult]}
              ELSE {[exits |-> FALSE, called |-> TRUE, model |-> m.name, ret |-> r] :
                        r \in BackendReturns})

\* ----------------------------------------------------------------- state

VARIABLES
    userCfg,      \* the file at DEFAULT_CONFIG_PATH
    projCfg,      \* the file at PROJECT_CONFIG_PATH
    argv,         \* the command line: flag -> string
    inFile,       \* the file named by -i
    outFs,        \* what the path named by -o allows
    pc,           \* where the run is
    config,       \* load_config's dictionary
    args,         \* the parsed namespace
    chunk_size,   \* read_in_chunks' chunk_size
    gen,          \* the generator: "new", "start", "loop", "final", "closed"
    pos,          \* characters of the decoded file already read
    buffer,       \* read_in_chunks' buffer
    appended,     \* history: the buffer right after the last append (line 102)
    emitted,      \* history: what the last pass of the loop yielded (0 or 1 chunks)
    chunks,       \* history: every chunk yielded so far
    results,      \* history: what each returned translate_text call returned
    backendCalls, \* history: the chunk number and model of each backend call
    sinkOpened,   \* the output file has been opened for writing (created/truncated)
    sink,         \* what has been written to the output file
    stdout,       \* what has been printed
    log,          \* the messages reported, by kind
    exitStatus    \* -1 while running

envVars == <<userCfg, projCfg, argv, inFile, outFs>>
genVars == <<chunk_size, gen, pos, buffer, appended, emitted, chunks>>
outVars == <<sinkOpened, sink, stdout>>
vars == <<userCfg, projCfg, argv, inFile, outFs, pc, config, args, chunk_size, gen,
          pos, buffer, appended, emitted, chunks, results, backendCalls,
          sinkOpened, sink, stdout, log, exitStatus>>

\* ---------------------------------------------------------------- inputs

DestOfKey(k) == CHOOSE d \in Settings : ConfigKey(d) = k

UserVal(dest) ==
    CASE dest = "source_lang" -> "fr"
      [] dest = "target_lang" -> "it"
      [] dest = "model" -> "acme/mt-user"
      [] dest = "provider" -> "acme"
      [] dest = "max_length" -> 256
      [] dest = "log_level" -> "debug"
      [] dest = "log_format" -> "%(message)s"

ProjVal(dest) ==
    CASE dest = "source_lang" -> "es"
      [] dest = "target_lang" -> "nl"
      [] dest = "model" -> "acme/mt-proj"
      [] dest = "provider" -> "google"
      [] dest = "max_length" -> 128
      [] dest = "log_level" -> "WARNING"
      [] dest = "log_format" -> "%(levelname)s: %(message)s"

CliVal(dest) ==
    CASE dest = "source_lang" -> "DE"
      [] dest = "target_lang" -> "fr"
      [] dest = "model" -> "foo/bar"
      [] dest = "provider" -> "facebook"
      [] dest = "max_length" -> "64"
      [] dest = "log_level" -> "error"
      [] dest = "log_format" -> "%(name)s"

FewSettings == {D \in SUBSET Settings : Cardinality(D) <= MaxKeys}

UserDocs == {[k \in {ConfigKey(d) : d \in D} |-> UserVal(DestOfKey(k))] : D \in FewSettings}
ProjDocs == {[k \in {ConfigKey(d) : d \in D} |-> ProjVal(DestOfKey(k))] : D \in FewSettings}
CliMaps == {[d \in D |-> CliVal(d)] : D \in FewSettings}

NoFile == [state |-> "absent", doc |-> <<>>]
BrokenFiles == {[state |-> s, doc |-> <<>>] : s \in {"unreadable", "malformed", "nonmapping"}}
UserFiles == {NoFile} \cup BrokenFiles \cup {[state |-> "mapping", doc |-> m] : m \in UserDocs}
ProjFiles == {NoFile} \cup BrokenFiles \cup {[state |-> "mapping", doc |-> m] : m \in ProjDocs}

NoInput == [state |-> "missing", raw |-> <<>>]
Readable(raw) == [state |-> "ok", raw |-> raw]

Inline == "text" :> "Hallo"

Optional(flag, values) == {<<>>} \cup {flag :> v : v \in values}

\* the layers vary, one inline text is translated
LayeringRuns ==
    {[user |-> u, proj |-> p, argv |-> c @@ Inline, inFile |-> NoInput, outFs |-> "ok"] :
        u \in UserFiles, p \in ProjFiles, c \in CliMaps}

\* the arguments of the model-name resolution vary
ResolutionRuns ==
    {[user |-> u, proj |-> NoFile, inFile |-> NoInput, outFs |-> "ok",
      argv |-> pr @@ sl @@ tl @@ mo @@ sz @@ Inline] :
        u \in {NoFile, [state |-> "mapping", doc |-> "default_provider" :> "acme"]},
        pr \in Optional("provider", {"helsinki", "facebook", "google"}),
        sl \in Optional("source_lang", {"DE"}),
        tl \in Optional("target_lang", {"fr"}),
        mo \in Optional("model", {"", "foo/bar"}),
        sz \in Optional("model_size", {"", "418M", "1.2B", "small", "base", "large", "999X"})}

\* the input file and the output path vary
MainFiles ==
    {NoInput, [state |-> "denied", raw |-> <<>>]}
    \cup {Readable(raw) : raw \in SeqsUpTo({"a", LF, BAD}, MaxMainLen)}

StreamingRuns ==
    {[user |-> NoFile, proj |-> NoFile, inFile |-> f, outFs |-> o[2],
      argv |-> ("input" :> "in.txt") @@ o[1] @@ c] :
        f \in MainFiles,
        o \in {<<"output" :> "out.txt", "ok">>, <<"output" :> "out.txt", "unopenable">>,
                <<"output" :> "out.txt", "unwritable">>, <<(<<>>), "ok">>},
        c \in {<<>>, ("provider" :> "facebook") @@ ("model_size" :> "999X")}}

\* the ways of naming the input and the output vary
ModeRuns ==
    {[user |-> NoFile, proj |-> NoFile, inFile |-> Readable(<<"a", LF>>), outFs |-> o,
      argv |-> t @@ i @@ out @@ c] :
        o \in {"ok", "unopenable", "unwritable"},
        t \in Optional("text", {"", "Hallo"}),
        i \in Optional("input", {"", "in.txt"}),
        out \in Optional("output", {"", "out.txt"}),
        c \in {<<>>, "provider" :> "acme", "log_level" :> "loud"}}

Runs == LayeringRuns \cup ResolutionRuns \cup StreamingRuns \cup ModeRuns

ProgramStart ==
    /\ config = <<>>
    /\ args = <<>>
    /\ gen = "new"
    /\ pos = 0
    /\ buffer = <<>>
    /\ appended = <<>>
    /\ emitted = <<>>
    /\ chunks = <<>>
    /\ results = <<>>
    /\ backendCalls = <<>>
    /\ sinkOpened = FALSE
    /\ sink = <<>>
    /\ stdout = <<>>
    /\ log = <<>>
    /\ exitStatus = -1

\* main() is started
Init ==
    /\ \E r \in Runs :
          /\ userCfg = r.user
          /\ projCfg = r.proj
          /\ argv = r.argv
          /\ inFile = r.inFile
          /\ outFs = r.outFs
    /\ pc = "load_user"
    /\ chunk_size = MainChunkSize
    /\ ProgramStart


\* ---------------------------------------------------------------- actions

\* the process ends with the given status after reporting `kind`
Exit(status, kind) ==
    /\ pc' = "done"
    /\ exitStatus' = status
    /\ log' = Append(log, kind)

\* load_config, lines 50-57; an exception that is not caught ends the run
\* with a traceback and status 1
LoadUserConfig ==
    /\ pc = "load_user"
    /\ LET l == LoadLayer(userCfg, config)
       IN  IF l.raised
           THEN Exit(1, "traceback") /\ UNCHANGED config
           ELSE /\ config' = l.config
                /\ log' = IF l.warned THEN Append(log, "config_warning") ELSE log
                /\ pc' = "load_project"
                /\ UNCHANGED exitStatus
    /\ UNCHANGED <<envVars, genVars, outVars, args, results, backendCalls>>

\* load_config, lines 60-69
LoadProjectConfig ==
    /\ pc = "load_project"
    /\ LET l == LoadLayer(projCfg, config)
       IN  IF l.raised
           THEN Exit(1, "traceback") /\ UNCHANGED config
           ELSE /\ config' = l.config
                /\ log' = IF l.warned THEN Append(log, "config_warning") ELSE log
                /\ pc' = "parse"
                /\ UNCHANGED exitStatus
    /\ UNCHANGED <<envVars, genVars, outVars, args, results, backendCalls>>

\* main, lines 219-283
ParseArguments ==
    /\ pc = "parse"
    /\ IF ParseError(argv)
       THEN Exit(2, "usage") /\ UNCHANGED args
       ELSE /\ args' = ParseArgs(argv, config)
            /\ pc' = "dispatch"
            /\ UNCHANGED <<log, exitStatus>>
    /\ UNCHANGED <<envVars, genVars, outVars, config, results, backendCalls>>

\* main, the tests of lines 305, 332 and 356
Dispatch ==
    /\ pc = "dispatch"
    /\ IF ~Falsy(args["input"])
       THEN pc' = "open_out" /\ UNCHANGED <<log, exitStatus>>
       ELSE IF ~Falsy(args["text"])
       THEN pc' = "translate_text" /\ UNCHANGED <<log, exitStatus>>
       ELSE Exit(1, "no_input")
    /\ UNCHANGED <<envVars, genVars, outVars, config, args, results, backendCalls>>

\* main, lines 307-308: the output file is opened for writing, then the
\* generator is created.  open(None) raises TypeError; every exception is
\* caught at line 325 or 328 and ends the run with status 1.
OpenOutput ==
    /\ pc = "open_out"
    /\ IF args["output"] = None \/ args["output"] = "" \/ outFs = "unopenable"
       THEN Exit(1, "output_failed") /\ UNCHANGED <<sinkOpened, sink, gen>>
       ELSE /\ sinkOpened' = TRUE
            /\ sink' = <<>>
            /\ gen' = "start"
            /\ pc' = "next"
            /\ UNCHANGED <<log, exitStatus>>
    /\ UNCHANGED <<envVars, config, args, chunk_size, pos, buffer, appended, emitted,
                   chunks, results, backendCalls, stdout>>

\* the decoded text f.read draws from
Decoded == TranslateNewlines(inFile.raw)

\* where the consumer of the generator goes with a chunk: main's loop body,
\* or the next request of a caller that only collects the chunks
AfterYield == IF pc = "drain" THEN "drain" ELSE "translate"

\* read_in_chunks, lines 95-97, at the first request for a chunk
GenOpen ==
    /\ pc \in {"next", "drain"}
    /\ gen = "start"
    /\ inFile.state = "ok"
    /\ gen' = "loop"
    /\ buffer' = <<>>
    /\ pos' = 0
    /\ UNCHANGED <<envVars, outVars, pc, config, args, chunk_size, appended, emitted,
                   chunks, results, backendCalls, log, exitStatus>>

\* read_in_chunks, lines 96 and 111-113: the file cannot be opened
GenOpenError ==
    /\ pc \in {"next", "drain"}
    /\ gen = "start"
    /\ inFile.state # "ok"
    /\ gen' = "closed"
    /\ Exit(1, "input_unreadable")
    /\ UNCHANGED <<envVars, outVars, config, args, chunk_size, pos, buffer, appended,
                   emitted, chunks, results, backendCalls>>

\* read_in_chunks, lines 99-109: a block is read and handled
GenIterate ==
    /\ pc \in {"next", "drain"}
    /\ gen = "loop"
    /\ LET block == FRead(Decoded, pos, chunk_size)
           step == LoopBody(buffer, block, chunk_size)
       IN  /\ block # <<>>
           /\ ~InSeq(BAD, block)
           /\ pos' = pos + Len(block)
           /\ appended' = step.appended
           /\ emitted' = step.yield
           /\ buffer' = step.buffer
           /\ chunks' = chunks \o step.yield
           /\ pc' = IF step.yield # <<>> THEN AfterYield ELSE pc
    /\ UNCHANGED <<envVars, outVars, config, args, chunk_size, gen, results,
                   backendCalls, log, exitStatus>>

\* read_in_chunks, lines 99 and 111-113: f.read raises UnicodeDecodeError.
\* The decoder works on blocks of bytes that it reads ahead, so the read that
\* raises is the one that needs the undecodable bytes or an earlier one.
GenReadError ==
    /\ pc \in {"next", "drain"}
    /\ gen = "loop"
    /\ InSeq(BAD, SubSeq(Decoded, pos + 1, Len(Decoded)))
    /\ gen' = "closed"
    /\ Exit(1, "input_unreadable")
    /\ UNCHANGED <<envVars, outVars, config, args, chunk_size, pos, buffer, appended,
                   emitted, chunks, results, backendCalls>>

\* what line 110 yields
FinalChunk(buf) == <<buf>>

\* read_in_chunks, lines 99-101 and 110: the file is exhausted
GenFinish ==
    /\ pc \in {"next", "drain"}
    /\ gen = "loop"
    /\ FRead(Decoded, pos, chunk_size) = <<>>
    /\ gen' = "final"
    /\ chunks' = chunks \o FinalChunk(buffer)
    /\ pc' = AfterYield
    /\ UNCHANGED <<envVars, outVars, config, args, chunk_size, pos, buffer, appended,
                   emitted, results, backendCalls, log, exitStatus>>

\* the generator returns; main's loop ends, line 323 logs the completion and
\* the process ends normally
GenReturn ==
    /\ pc \in {"next", "drain"}
    /\ gen = "final"
    /\ gen' = "closed"
    /\ pc' = "done"
    /\ exitStatus' = IF pc = "next" THEN 0 ELSE exitStatus
    /\ UNCHANGED <<envVars, outVars, config, args, chunk_size, pos, buffer, appended,
                   emitted, chunks, results, backendCalls, log>>

\* one call of translate_text on behalf of chunk number n (0: the inline text)
Translate(n, then) ==
    \E o \in TranslateOutcomes(args) :
        IF o.exits
        THEN Exit(1, "import_error") /\ UNCHANGED <<results, backendCalls>>
        ELSE /\ results' = Append(results, o.ret)
             /\ backendCalls' =
                   IF o.called THEN Append(backendCalls, [chunk |-> n, model |-> o.model])
                   ELSE backendCalls
             /\ log' = IF o.called THEN log ELSE Append(log, "config_error")
             /\ pc' = then
             /\ UNCHANGED exitStatus

\* main, lines 309-317
TranslateChunk ==
    /\ pc = "translate"
    /\ Translate(Len(chunks), "write")
    /\ UNCHANGED <<envVars, genVars, outVars, config, args>>

\* main, lines 318-322 (and 328-330 when the write raises)
WriteOrStop ==
    /\ pc = "write"
    /\ LET translated_text == results[Len(results)]
       IN  IF Truthy(translated_text)
           THEN IF outFs = "unwritable"
                THEN Exit(1, "output_failed") /\ UNCHANGED sink
                ELSE /\ sink' = sink \o translated_text.text
                     /\ pc' = "next"
                     /\ UNCHANGED <<log, exitStatus>>
           ELSE Exit(1, "translation_failed") /\ UNCHANGED sink
    /\ UNCHANGED <<envVars, genVars, config, args, results, backendCalls,
                   sinkOpened, stdout>>

\* main, lines 333-341
TranslateInline ==
    /\ pc = "translate_text"
    /\ Translate(0, "deliver")
    /\ UNCHANGED <<envVars, genVars, outVars, config, args>>

\* main, lines 342-354; after them main returns and the process ends with
\* status 0
Deliver ==
    /\ pc = "deliver"
    /\ LET translated_text == results[Len(results)]
       IN  IF Truthy(translated_text)
           THEN IF ~Falsy(args["output"])
                THEN IF outFs = "ok"
                     THEN /\ sinkOpened' = TRUE
                          /\ sink' = translated_text.text
                          /\ Exit(0, "written")
                          /\ UNCHANGED stdout
                     ELSE /\ sinkOpened' = (outFs = "unwritable")
                          /\ Exit(0, "output_failed")
                          /\ UNCHANGED <<sink, stdout>>
                ELSE /\ stdout' = translated_text.text
                     /\ Exit(0, "printed")
                     /\ UNCHANGED <<sinkOpened, sink>>
           ELSE Exit(1, "translation_failed") /\ UNCHANGED outVars
    /\ UNCHANGED <<envVars, genVars, config, args, results, backendCalls>>

Next ==
    \/ LoadUserConfig
    \/ LoadProjectConfig
    \/ ParseArguments
    \/ Dispatch
    \/ OpenOutput
    \/ GenOpen
    \/ GenOpenError
    \/ GenIterate
    \/ GenReadError
    \/ GenFinish
    \/ GenReturn
    \/ TranslateChunk
    \/ WriteOrStop
    \/ TranslateInline
    \/ Deliver

\* a run of main()
Spec == Init /\ [][Next]_vars

\* ------------------------------------------- read_in_chunks on its own

ChunkFiles ==
    {NoInput, [state |-> "denied", raw |-> <<>>]}
    \cup {Readable(raw) : raw \in SeqsUpTo(Alphabet \cup {BAD}, MaxLen)}
    \cup {Readable(Repeat("a", n)) : n \in (MaxLen + 1)..MaxLine}

\* a caller collects list(read_in_chunks(path, chunk_size))
InitChunks ==
    /\ userCfg = NoFile
    /\ projCfg = NoFile
    /\ argv = <<>>
    /\ outFs = "ok"
    /\ inFile \in ChunkFiles
    /\ chunk_size \in 1..MaxChunk
    /\ pc = "drain"
    /\ ProgramStart

StartChunks ==
    /\ pc = "drain"
    /\ gen = "new"
    /\ gen' = "start"
    /\ UNCHANGED <<envVars, outVars, pc, config, args, chunk_size, pos, buffer, appended,
                   emitted, chunks, results, backendCalls, log, exitStatus>>

NextChunks ==
    \/ StartChunks
    \/ GenOpen
    \/ GenOpenError
    \/ GenIterate
    \/ GenReadError
    \/ GenFinish
    \/ GenReturn

SpecChunks == InitChunks /\ [][NextChunks]_vars


\* ------------------------------------------------------------ properties

Last(s) == s[Len(s)]

\* the generator has yielded its final chunk without a read error
GenExhausted == gen = "final" \/ (gen = "closed" /\ ~InSeq("input_unreadable", log))

NoLineBreak(s) == \A i \in 1..Len(s) : s[i] \notin {LF, CR, BAD}

Streaming == "input" \in DOMAIN args /\ ~Falsy(args["input"])

\* C1, as stated: once read_in_chunks has yielded its last chunk, the chunks
\* concatenated in order are the characters of the input file, none lost,
\* duplicated or reordered.
C1_RoundTripOfFile == GenExhausted => Concat(chunks) = inFile.raw

\* C1, amended: the chunks concatenated in order are the input with every
\* "\r\n" and every lone "\r" read as "\n" (what text mode hands to the
\* reader); an input without "\r" is reproduced exactly.
C1_RoundTripOfDecodedText ==
    GenExhausted =>
        /\ Concat(chunks) = TranslateNewlines(inFile.raw)
        /\ ~InSeq(CR, inFile.raw) => Concat(chunks) = inFile.raw

C1_Witness ==
    /\ GenExhausted
    /\ Len(chunks) >= 3
    /\ InSeq(CR, inFile.raw)
    /\ InSeq("a", inFile.raw)
    /\ InSeq("b", inFile.raw)

\* a call of translate_text that main treats as failed: chunk k's call returned
\* None or an empty text, or ended the process
C2_FailedAt(k) ==
    \/ k <= Len(results) /\ (results[k].none \/ results[k].text = <<>>)
    \/ k = Len(results) + 1 /\ InSeq("import_error", log)

C2_Texts(rs) == Concat([i \in 1..Len(rs) |-> rs[i].text])

\* C2: in streaming mode, when the run has ended and chunk k is the first
\* whose translate_text call failed (returned None or an empty text, or
\* ended the process), the output file holds exactly the translations of
\* chunks 1..k-1 in order, the failure was reported, the exit status is
\* non-zero and no chunk after k was read or sent to the backend; at every
\* moment each chunk has at most one backend call and a chunk is read only
\* after the call for the previous one has returned.
C2_StreamingFailureStop ==
    Streaming =>
        /\ \A i, j \in 1..Len(backendCalls) :
              i # j => backendCalls[i].chunk # backendCalls[j].chunk
        /\ \A i \in 1..Len(backendCalls) : backendCalls[i].chunk <= Len(chunks)
        /\ Len(chunks) <= Len(results) + 1
        /\ pc = "done" =>
              \A k \in 1..Len(chunks) :
                  (C2_FailedAt(k) /\ \A j \in 1..(k - 1) : ~C2_FailedAt(j)) =>
                      /\ sink = C2_Texts(SubSeq(results, 1, k - 1))
                      /\ exitStatus > 0
                      /\ InSeq("translation_failed", log) \/ InSeq("import_error", log)
                      /\ Len(chunks) = k
                      /\ \A i \in 1..Len(backendCalls) : backendCalls[i].chunk <= k

C2_Witness ==
    /\ Streaming
    /\ pc = "done"
    /\ Len(results) = 2
    /\ results[2].none
    /\ Len(backendCalls) = 2
    /\ sink # <<>>
    /\ gen = "loop"
    /\ pos < Len(Decoded)

\* the reports of a fatal error
C3_FatalKinds == {"no_input", "input_unreadable", "translation_failed",
                  "config_error", "output_failed"}

\* C3: a run that reported a fatal error (no input, unreadable input file,
\* failed translation, unknown provider or invalid model size, failure to
\* open or write the output) never ends with exit status 0, in either mode.
C3_FatalErrorsExitNonZero ==
    (pc = "done" /\ \E i \in 1..Len(log) : log[i] \in C3_FatalKinds) => exitStatus # 0

\* C4: when the input file is unreadable the error is reported once, before
\* any chunk was yielded, before any backend call and before the output file
\* was opened.
C4_UnreadableInputBeforeAnything ==
    InSeq("input_unreadable", log) =>
        /\ Cardinality({i \in 1..Len(log) : log[i] = "input_unreadable"}) = 1
        /\ chunks = <<>>
        /\ results = <<>>
        /\ backendCalls = <<>>
        /\ ~sinkOpened

\* C5: read_in_chunks yields an empty chunk exactly when the source is
\* empty, and then it yields that one chunk only.
C5_EmptyChunkOnlyForEmptySource ==
    GenExhausted =>
        /\ (\E i \in 1..Len(chunks) : chunks[i] = <<>>) <=> (inFile.raw = <<>>)
        /\ inFile.raw = <<>> => chunks = << <<>> >>

\* C6, as stated: of a file that is one line without a newline, every chunk
\* but the last has exactly chunk_size characters and the last has at most
\* chunk_size.
C6_LastChunkWithinTarget ==
    (GenExhausted /\ NoLineBreak(inFile.raw)) =>
        /\ \A i \in 1..(Len(chunks) - 1) : Len(chunks[i]) = chunk_size
        /\ Len(Last(chunks)) <= chunk_size

\* C6, amended: every chunk but the last has exactly chunk_size characters
\* and the last has at most twice chunk_size.
C6_LastChunkWithinTwiceTarget ==
    (GenExhausted /\ NoLineBreak(inFile.raw)) =>
        /\ \A i \in 1..(Len(chunks) - 1) : Len(chunks[i]) = chunk_size
        /\ Len(Last(chunks)) <= 2 * chunk_size

C6_Witness ==
    /\ GenExhausted
    /\ NoLineBreak(inFile.raw)
    /\ chunk_size > 1
    /\ Len(inFile.raw) = 5 * chunk_size
    /\ Len(chunks) = 4

\* C7: after a block is appended, a buffer that contains a newline gives a
\* chunk that ends right after the buffer's last newline, and what is kept
\* holds no newline; a chunk that does not end in a newline comes only from
\* a buffer without newline longer than twice chunk_size, or is the final
\* chunk.
C7_BoundaryPreference ==
    /\ HasNewline(appended) =>
          /\ Len(emitted) = 1
          /\ emitted[1] \o buffer = appended
          /\ Last(emitted[1]) = LF
          /\ ~HasNewline(buffer)
    /\ (emitted # <<>> /\ Last(emitted[1]) # LF) =>
          /\ ~HasNewline(appended)
          /\ Len(appended) > 2 * chunk_size
    /\ \A i \in 1..Len(chunks) :
          (chunks[i] # <<>> /\ Last(chunks[i]) # LF) =>
              \/ i = Len(chunks) /\ gen \in {"final", "closed"}
              \/ Len(chunks[i]) = chunk_size

C7_Witness ==
    /\ Len(emitted) = 1
    /\ buffer # <<>>
    /\ \E i, j \in 1..Len(appended) :
          i < j /\ appended[i] = LF /\ appended[j] = LF

\* a value as argparse types it, and the defaults the claim names
C8_FromCommandLine(d, v) ==
    CASE d = "max_length" -> (IF v = "64" THEN 64 ELSE 32)
      [] d = "log_level" -> (IF v = "error" THEN "ERROR" ELSE v)
      [] OTHER -> v

C8_FromFile(d, v) == IF d = "log_level" /\ v = "debug" THEN "DEBUG" ELSE v

C8_Default(d) ==
    CASE d = "source_lang" -> "de"
      [] d = "target_lang" -> "en"
      [] d = "provider" -> "helsinki"
      [] d = "max_length" -> 512
      [] d = "log_level" -> "INFO"
      [] d = "log_format" -> "%(asctime)s - %(levelname)s - %(message)s"
      [] d = "model" -> None

C8_Gives(file, d) == file.state = "mapping" /\ ConfigKey(d) \in DOMAIN file.doc

\* C8: once the arguments are parsed, each setting has the value of the
\* strongest layer that gives it, command line over project file over user
\* file over the hard-coded default (de, en, helsinki, 512, INFO), as
\* argparse types it (the level upper-cased, the length an integer); no
\* setting but the optional model name is left without a value.
C8_ConfigPrecedence ==
    args # <<>> =>
        \A d \in Settings :
            /\ args[d] =
                  IF d \in DOMAIN argv THEN C8_FromCommandLine(d, argv[d])
                  ELSE IF C8_Gives(projCfg, d) THEN C8_FromFile(d, projCfg.doc[ConfigKey(d)])
                  ELSE IF C8_Gives(userCfg, d) THEN C8_FromFile(d, userCfg.doc[ConfigKey(d)])
                  ELSE C8_Default(d)
            /\ d \notin {"model", "max_length"} => args[d] # None
            /\ d = "max_length" => args[d] \in 1..512

C8_Witness ==
    /\ args # <<>>
    /\ \E d \in Settings :
          /\ C8_Gives(userCfg, d)
          /\ C8_Gives(projCfg, d)
          /\ d \notin DOMAIN argv
    /\ \E d \in Settings : d \in DOMAIN argv /\ d # "model"

\* what a configuration file contributes
C9_Doc(file) == IF file.state = "mapping" THEN file.doc ELSE <<>>

\* C9: whatever is wrong with a configuration file (absent, unreadable,
\* malformed, not a mapping), load_config returns, the file contributes
\* nothing, the other file's keys are applied and the run goes on.
C9_BadLayerNeverFatal ==
    /\ ~InSeq("traceback", log)
    /\ pc \notin {"load_user", "load_project", "drain"} =>
          \A k \in {ConfigKey(d) : d \in Settings} :
              /\ k \in DOMAIN config <=> k \in DOMAIN C9_Doc(userCfg) \cup DOMAIN C9_Doc(projCfg)
              /\ k \in DOMAIN C9_Doc(projCfg) => config[k] = C9_Doc(projCfg)[k]

\* the identifier the claim names ("error" when it names none)
C10_Sizes(provider) ==
    IF provider = "facebook" THEN {"418M", "1.2B"} ELSE {"small", "base", "large"}

C10_Expected(a) ==
    IF a["model"] # None /\ a["model"] # "" THEN a["model"]
    ELSE IF a["provider"] = "helsinki"
    THEN "Helsinki-NLP/opus-mt-" \o a["source_lang"] \o "-" \o a["target_lang"]
    ELSE IF a["provider"] \notin {"facebook", "google"} THEN "error"
    ELSE IF a["model_size"] \in {None, ""}
    THEN (IF a["provider"] = "facebook" THEN "facebook/m2m100-418M" ELSE "google/mt5-small")
    ELSE IF a["model_size"] \notin C10_Sizes(a["provider"]) THEN "error"
    ELSE (IF a["provider"] = "facebook" THEN "facebook/m2m100-" ELSE "google/mt5-")
         \o a["model_size"]

\* C10: the model identifier of every backend call is the explicit name when
\* one is given; else, for helsinki, Helsinki-NLP/opus-mt-<source>-<target>
\* with the codes as given; else, for facebook and google, the template with
\* the given size when it is permitted and with the first permitted size
\* when none is given.  For an unknown provider or a size that is not
\* permitted translate_text returns None and the backend is never called.
C10_ModelNameResolution ==
    args # <<>> =>
        /\ \A i \in 1..Len(backendCalls) : backendCalls[i].model = C10_Expected(args)
        /\ C10_Expected(args) = "error" =>
              /\ backendCalls = <<>>
              /\ \A i \in 1..Len(results) : results[i].none

C10_Witness ==
    /\ backendCalls # <<>>
    /\ args["model"] = None
    /\ args["provider"] = "facebook"
    /\ args["model_size"] = "1.2B"
    /\ args["source_lang"] = "DE"


====
